---- MODULE Spec2Model ----
(***************************************************************************)
(* Model of dockerized_refactor/python-script/cstr_controller.py: the      *)
(* CSTR simulation loop (simulate_cstr), the telemetry publisher           *)
(* (send_data_to_kafka) and the command receiver (receive_tc_from_kafka),  *)
(* together with the two Kafka topics they talk to and the /healthcheck    *)
(* marker file.                                                            *)
(*                                                                         *)
(* Floating point values are abstracted to tagged records: a finite number *)
(* [k |-> "fin", n |-> 305], NaN, +inf (-inf is treated by every line of   *)
(* the program as +inf is).  The same record shape holds the other things  *)
(* a decoded "Tc" field can be (JSON null, absent) and Python's None; a    *)
(* "Tc" that is a JSON string fails in np.isnan exactly as JSON null does. *)
(***************************************************************************)
EXTENDS Integers, Sequences, FiniteSets

\* ------------------------------------------------------------------ bounds
\* len(t): number of points of the time grid (301 in __main__).
NPoints == 3
\* Messages that can sit unread in the cstr_control topic at one time.
MaxQueue == 1

\* ------------------------------------------------------------------ values
Fin(n) == [k |-> "fin", n |-> n]
NaN == [k |-> "nan", n |-> 0]
PInf == [k |-> "inf", n |-> 0]
\* Python None (the "no value" result of the receiver)
None == [k |-> "none", n |-> 0]
\* "Tc": null, and no "Tc" key at all
TcNull == [k |-> "null", n |-> 0]
TcMissing == [k |-> "missing", n |-> 0]

\* np.isnan(x) for x a Python float
np_isnan(x) == x.k = "nan"
\* np.isnan raises TypeError on None
isnan_raises(x) == x.k \in {"null", "none"}

\* initial_tc = 300.0; u = np.ones(301) * initial_tc
initial_tc == Fin(300)
\* x0 = [0.87725294608097, 324.475443431599], scaled to integers
x0_init == <<Fin(877), Fin(324)>>

\* for attempt in range(5)
RangeAttempts == 5

\* ---------------------------------------------------------------- messages
\* message.value as the consumer's value_deserializer hands it over.
\*   shape   : what json.loads produced: "null" (None: empty payload or JSON
\*             null), "object" (a dict), "list", "number", or "garbage"
\*             (text that is not JSON; only possible inside a str)
\*   tc      : for an object, its "Tc" entry
\*   wrapped : the value is a Python str holding the JSON text of the shape
\*             (the producer double-encoded it)
Msg(shape, tc, wrapped) == [shape |-> shape, tc |-> tc, wrapped |-> wrapped]

Messages ==
    { Msg("null", TcMissing, FALSE),
      Msg("object", Fin(305), FALSE),
      Msg("object", Fin(305), TRUE),
      Msg("object", NaN, FALSE),
      Msg("object", PInf, FALSE),
      Msg("object", TcMissing, FALSE),
      Msg("object", TcNull, FALSE),
      Msg("list", TcMissing, FALSE),
      Msg("number", TcMissing, FALSE),
      Msg("garbage", TcMissing, TRUE) }

\* Results odeint can hand back for one span: y[-1] = (Ca, T).  odeint is an
\* external solver; it reports non-convergence by a warning, not by raising,
\* and cstr() computes with NaN/inf without raising.
OdeOutcomes ==
    { <<Fin(880), Fin(325)>>,
      <<NaN, Fin(325)>>,
      <<Fin(880), NaN>>,
      <<PInf, Fin(325)>> }

Idx == 0 .. (NPoints - 1)
\* The values of i: for i in range(len(t) - 1)
Steps == 0 .. (NPoints - 2)

\* history entries for what has not happened yet
Pending == [k |-> "pending", n |-> 0]
NoPair == <<Pending, Pending>>

VARIABLES
    pc,          \* position of the single thread of control
    i,           \* loop variable of simulate_cstr
    u,           \* control-input array, indices 0..len(t)-1
    Ca, T,       \* result arrays of simulate_cstr
    x0,          \* state vector carried between steps
    attempt,     \* loop variable of receive_tc_from_kafka
    tc,          \* value returned by receive_tc_from_kafka
    inbound,     \* unread messages of topic cstr_control, oldest first
    prodBuf,     \* producer.send()'s buffer, not yet flushed
    outbound,    \* messages delivered to topic cstr_data
    marker,      \* os.path.isfile("/healthcheck")
    \* history variables (observations; no action reads them)
    timeouts,    \* idle timeouts of the inner poll in the current call
    handled,     \* what lines 51-64 did with the last message of this poll
    creations,   \* number of times /healthcheck was written
    sendLog,     \* level logged by the last send_data_to_kafka call
    usedU,       \* the control input handed to the latest odeint call
    startState,  \* the x0 handed to the latest odeint call
    endState,    \* y[-1] as the latest odeint call returned it
    sentPair,    \* the arguments of the latest send_data_to_kafka call
    accepted,    \* per step: what receive_tc_from_kafka returned (line 139)
    calls,       \* how often odeint, the publisher and the receiver were
                 \* called, and how often the receiver returned
    stale        \* how many messages at the head of inbound were already
                 \* there when the latest telemetry message was delivered

vars == <<pc, i, u, Ca, T, x0, attempt, tc, inbound, prodBuf, outbound,
          marker, timeouts, handled, creations, sendLog, usedU, startState,
          endState, sentPair, accepted, calls, stale>>

simVars == <<i, u, Ca, T, x0>>
recvHist == <<timeouts, handled>>
pubVars == <<prodBuf, outbound, marker, creations, sendLog>>
stepHist == <<usedU, startState, endState, sentPair, accepted>>

\* stale after a step that took k messages from the head of inbound
StaleAfter(k) == IF stale > k THEN stale - k ELSE 0

\* --------------------------------------------------- receive_tc_from_kafka
\* Lines 51-64 applied to one message: what the body of the inner loop does.
\*   "empty"  : message.value is None; warning, next message        (63-64)
\*   "caught" : KeyError or json.JSONDecodeError; error logged       (61-62)
\*   "nan"    : np.isnan(value["Tc"]); error logged                  (59-60)
\*   "return" : return value["Tc"]                                   (57-58)
\*   "raise"  : TypeError, which the except clause does not list: value["Tc"]
\*              on a list, a number or None, or np.isnan on None or a str
Handle(m) ==
    IF m.shape = "null" /\ ~m.wrapped THEN "empty"
    ELSE IF m.wrapped /\ m.shape = "garbage" THEN "caught"
    ELSE IF m.shape # "object" THEN "raise"
    ELSE IF m.tc = TcMissing THEN "caught"
    ELSE IF isnan_raises(m.tc) THEN "raise"
    ELSE IF np_isnan(m.tc) THEN "nan"
    ELSE "return"

\* Mutant of AttemptAfterReject: a rejected message uses up an attempt.
AttemptAfterRejectCounted == attempt + 1

\* The attempt counter after a rejected message (61-64: the inner loop just
\* goes on to the next message)
AttemptAfterReject == attempt

\* Mutant of MoreAttempts: the bound of the retry loop is off by one.
MoreAttemptsOffByOne == attempt < RangeAttempts

\* for attempt in range(5): there is a further value after the current one
MoreAttempts == attempt + 1 < RangeAttempts

\* logger.info("Waiting to receive message from Kafka..."); first attempt
RecvEnter ==
    /\ pc = "recv"
    /\ pc' = "iter"
    /\ attempt' = 0
    /\ timeouts' = 0
    /\ handled' = "nothing"
    /\ calls' = [calls EXCEPT !.recv = @ + 1]
    /\ UNCHANGED <<simVars, tc, inbound, pubVars, stepHist, stale>>

\* for message in consumer: the iterator yields the next unread message
NextMessage ==
    /\ pc = "iter"
    /\ inbound # <<>>
    /\ LET m == Head(inbound)
           h == Handle(m)
       IN /\ inbound' = Tail(inbound)
          /\ handled' = h
          /\ CASE h = "return" ->
                    /\ pc' = "fold"
                    /\ tc' = m.tc
                    /\ attempt' = attempt
                    /\ calls' = [calls EXCEPT !.ret = @ + 1]
               [] h = "raise" ->
                    /\ pc' = "raised"
                    /\ UNCHANGED <<tc, attempt, calls>>
               [] OTHER ->
                    /\ pc' = "iter"
                    /\ attempt' = AttemptAfterReject
                    /\ tc' = tc
                    /\ calls' = calls
    /\ stale' = StaleAfter(1)
    /\ UNCHANGED <<simVars, pubVars, timeouts, stepHist>>

\* consumer_timeout_ms=10000 without a message: the iterator stops; line 65
IdleTimeout ==
    /\ pc = "iter"
    /\ inbound = <<>>
    /\ pc' = "repoll"
    /\ timeouts' = timeouts + 1
    /\ handled' = "nothing"
    /\ UNCHANGED <<simVars, pubVars, attempt, tc, inbound, stepHist, calls,
                   stale>>

\* Number of records one consumer.poll(timeout_ms=5000) can hand back: at
\* least one when records are waiting, none after 5 s without any
PollCounts == {k \in 0 .. Len(inbound) : (k = 0) <=> (inbound = <<>>)}

\* consumer.poll(timeout_ms=5000): the records it returns are not bound to
\* any name; then the next attempt, or lines 67-68 after the last one
SecondaryPoll ==
    /\ pc = "repoll"
    /\ \E k \in PollCounts :
          /\ inbound' = SubSeq(inbound, k + 1, Len(inbound))
          /\ stale' = StaleAfter(k)
    /\ IF MoreAttempts
         THEN /\ attempt' = attempt + 1
              /\ pc' = "iter"
              /\ tc' = tc
              /\ calls' = calls
         ELSE /\ attempt' = attempt
              /\ pc' = "fold"
              /\ tc' = None
              /\ calls' = [calls EXCEPT !.ret = @ + 1]
    /\ UNCHANGED <<simVars, pubVars, timeouts, handled, stepHist>>

\* ------------------------------------------------------- send_data_to_kafka
\* Mutant of CanSend: only the concentration is tested.
CanSendCaOnly(ca, temp_reactor) == ~np_isnan(ca)

\* if not np.isnan(ca) and not np.isnan(temp_reactor)
CanSend(ca, temp_reactor) == ~np_isnan(ca) /\ ~np_isnan(temp_reactor)

\* Mutant of MarkerAbsent: the file is written without looking first.
MarkerNeverChecked == TRUE

\* if not os.path.isfile("/healthcheck")
MarkerAbsent == ~marker

\* lines 30-35, or line 43 and return
Send ==
    /\ pc = "send"
    /\ LET ca == Ca[i + 1]
           temp_reactor == T[i + 1]
       IN /\ IF CanSend(ca, temp_reactor)
            THEN /\ prodBuf' = Append(prodBuf,
                        [Ca |-> ca, Reactor_Temperature |-> temp_reactor])
                 /\ pc' = "flush"
                 /\ sendLog' = "none"
            ELSE /\ prodBuf' = prodBuf
                 /\ pc' = "recv"
                 /\ sendLog' = "error"
          /\ sentPair' = <<ca, temp_reactor>>
    /\ calls' = [calls EXCEPT !.pub = @ + 1]
    /\ UNCHANGED <<simVars, attempt, tc, inbound, outbound, marker,
                   creations, recvHist, usedU, startState, endState,
                   accepted, stale>>

\* producer.flush(); logger.info
Flush ==
    /\ pc = "flush"
    /\ outbound' = outbound \o prodBuf
    /\ prodBuf' = <<>>
    /\ sendLog' = "info"
    /\ pc' = "marker"
    /\ stale' = Len(inbound)
    /\ UNCHANGED <<simVars, attempt, tc, inbound, marker, creations, recvHist,
                   stepHist, calls>>

\* lines 39-41
HealthCheck ==
    /\ pc = "marker"
    /\ IF MarkerAbsent
         THEN /\ marker' = TRUE
              /\ creations' = creations + 1
         ELSE UNCHANGED <<marker, creations>>
    /\ pc' = "recv"
    /\ UNCHANGED <<simVars, attempt, tc, inbound, prodBuf, outbound, sendLog,
                   recvHist, stepHist, calls, stale>>

\* ------------------------------------------------------------ simulate_cstr
\* Mutant of ControlArg: the span is integrated with the input of its start.
ControlArgAtStart == u[i]

\* args=(u[i+1], Tf, Caf): the control input handed to odeint
ControlArg == u[i + 1]

\* Mutant of StartState: every span starts again from the initial state.
StartStateInitial == x0_init

\* odeint(cstr, x0, ts, ...): the start state handed to odeint
StartState == x0

\* lines 116-132: one odeint call and the bookkeeping after it
Integrate ==
    /\ pc = "integrate"
    /\ i < NPoints - 1
    /\ \E y \in OdeOutcomes :
          /\ Ca' = [Ca EXCEPT ![i + 1] = y[1]]
          /\ T' = [T EXCEPT ![i + 1] = y[2]]
          /\ x0' = <<y[1], y[2]>>
          /\ endState' = y
    /\ usedU' = ControlArg
    /\ startState' = StartState
    /\ calls' = [calls EXCEPT !.integ = @ + 1]
    /\ pc' = "send"
    /\ UNCHANGED <<i, u, attempt, tc, inbound, pubVars, recvHist, sentPair,
                   accepted, stale>>

\* Mutant of FoldIndex: the command overwrites the slot of the step's start.
FoldIndexAtStart == i

\* u[i + 1] = tc
FoldIndex == i + 1

\* Mutant of UAfterExhausted: the fallback of line 145 is enabled.
UAfterExhaustedFallback == [u EXCEPT ![i + 1] = u[i]]

\* else: logger.error(...); line 145 is a comment
UAfterExhausted == u

\* Mutant of LoopContinues: the loop runs over range(len(t)).
LoopContinuesToEnd == i + 1 < NPoints

\* for i in range(len(t) - 1): there is a further value after the current one
LoopContinues == i + 1 < NPoints - 1

\* lines 139-145, and the for statement of line 115 moving on.  The receiver's
\* frame (its local attempt) no longer exists once its result is consumed.
Fold ==
    /\ pc = "fold"
    /\ u' = IF tc # None THEN [u EXCEPT ![FoldIndex] = tc] ELSE UAfterExhausted
    /\ accepted' = [accepted EXCEPT ![i] = tc]
    /\ IF LoopContinues
         THEN /\ i' = i + 1
              /\ pc' = "integrate"
         ELSE /\ i' = i
              /\ pc' = "done"
    /\ attempt' = 0
    /\ timeouts' = 0
    /\ handled' = "nothing"
    /\ UNCHANGED <<Ca, T, x0, tc, inbound, pubVars, usedU, startState,
                   endState, sentPair, calls, stale>>

\* -------------------------------------------------------------- environment
\* The external controller (or anything else) writes to topic cstr_control.
Produce ==
    /\ pc \notin {"done", "raised"}
    /\ Len(inbound) < MaxQueue
    /\ \E m \in Messages : inbound' = Append(inbound, m)
    /\ UNCHANGED <<pc, simVars, attempt, tc, pubVars, recvHist, stepHist,
                   calls, stale>>

\* ------------------------------------------------------------ specification
\* The state when simulate_cstr enters its loop (lines 151-169, 113-115), in
\* a freshly started container: /healthcheck does not exist yet.  (A run that
\* starts with the file in place behaves as this one does after its first
\* emission, with no creation.)
Init ==
    /\ pc = "integrate"
    /\ i = 0
    /\ u = [j \in Idx |-> initial_tc]
    /\ Ca = [j \in Idx |-> x0_init[1]]
    /\ T = [j \in Idx |-> x0_init[2]]
    /\ x0 = x0_init
    /\ attempt = 0
    /\ tc = None
    /\ inbound = <<>>
    /\ prodBuf = <<>>
    /\ outbound = <<>>
    /\ marker = FALSE
    /\ timeouts = 0
    /\ handled = "nothing"
    /\ creations = 0
    /\ sendLog = "none"
    /\ usedU = Pending
    /\ startState = NoPair
    /\ endState = NoPair
    /\ sentPair = NoPair
    /\ accepted = [j \in Steps |-> Pending]
    /\ calls = [integ |-> 0, pub |-> 0, recv |-> 0, ret |-> 0]
    /\ stale = 0

\* The steps of the Python process
Program ==
    \/ Integrate
    \/ Send
    \/ Flush
    \/ HealthCheck
    \/ RecvEnter
    \/ NextMessage
    \/ IdleTimeout
    \/ SecondaryPoll
    \/ Fold

Next == Program \/ Produce

Spec == Init /\ [][Next]_vars

\* The process is single-threaded and every call it makes is blocking with a
\* bounded wait, so it always takes its next step; the environment owes nothing.
FairSpec == Spec /\ WF_vars(Program)

\* =================================================================== claims
\* A finite real number, in the specification's sense
IsFinite(x) == x.k = "fin"

\* A command the specification accepts: shape {"Tc": <finite float>}
IsValidCmd(m) == m.shape = "object" /\ IsFinite(m.tc)

\* The thread is inside receive_tc_from_kafka
InCall == pc \in {"iter", "repoll"}

\* The messages a step removes from the head of the inbound topic
Taken == SubSeq(inbound, 1, Len(inbound) - Len(inbound'))

\* ---------------------------------------------------------------------- C1
\* C1: every call of receive_tc_from_kafka eventually comes to an end,
\* whatever the inbound topic delivers; it never blocks for ever.  Checked
\* under FairSpec: the process always takes its next step.  A call that ends
\* by an exception counts as ended here (C4 is about those), so that what
\* refutes this formula is a call that goes on for ever.
C1_EveryCallReturns == (pc = "recv") ~> (pc \in {"fold", "raised"})

\* ---------------------------------------------------------------------- C2
\* C2: the receiver returns None after exactly 5 attempts, and an attempt
\* ends only on an idle timeout of the inner poll: the attempt counter always
\* equals the number of idle timeouts of the call, a sixth attempt is never
\* started, None is returned only with 5 timeouts behind it, and a value is
\* returned only with fewer than 5.
C2_ExhaustedAfterFiveTimeouts ==
    /\ (pc = "iter") => (timeouts = attempt /\ attempt < 5)
    /\ (pc = "repoll") => (timeouts = attempt + 1 /\ attempt < 5)
    /\ (pc = "fold" /\ tc = None) => (timeouts = 5 /\ attempt = 4)
    /\ (pc = "fold" /\ tc # None) => (timeouts < 5)

\* The call has just returned None, five idle timeouts after it began.
C2_Witness == pc = "fold" /\ tc = None /\ timeouts = 5 /\ handled = "nothing"

\* ---------------------------------------------------------------------- C3
\* C3: the receiver returns a control value only if it is a finite real
\* number (never NaN, +inf, -inf, or a non-number).
C3_AcceptedOnlyFinite == (pc = "fold" /\ tc # None) => IsFinite(tc)

\* ---------------------------------------------------------------------- C4
\* C4: a message whose decoded shape is not {"Tc": <float>} is skipped: the
\* attempt counter keeps its value and the receiver stays in the inner poll;
\* in particular the call does not end by an exception.
IsTcFloatShape(m) ==
    m.shape = "object" /\ m.tc.k \in {"fin", "nan", "inf"}

C4_BadShapeSkipped ==
    [][ ( /\ pc = "iter"
          /\ inbound # <<>>
          /\ ~IsTcFloatShape(Head(inbound))
          /\ inbound' = Tail(inbound) )
        => (pc' = "iter" /\ attempt' = attempt) ]_vars

\* ---------------------------------------------------------------------- C5
\* C5: a message with a null payload, an object without "Tc", or "Tc": NaN
\* is rejected without using up an attempt: afterwards the attempt counter and
\* the number of idle timeouts are what they were, nothing is returned, and
\* the receiver is still in the same inner poll.
C5_Rejected(m) ==
    /\ ~m.wrapped
    /\ \/ m.shape = "null"
       \/ m.shape = "object" /\ m.tc = TcMissing
       \/ m.shape = "object" /\ m.tc = NaN

C5_RejectKeepsAttempt ==
    [][ ( /\ pc = "iter"
          /\ inbound # <<>>
          /\ C5_Rejected(Head(inbound))
          /\ inbound' = Tail(inbound) )
        => ( /\ pc' = "iter"
             /\ attempt' = attempt
             /\ timeouts' = timeouts
             /\ tc' = tc
             /\ handled' \in {"empty", "caught", "nan"} ) ]_vars

\* A NaN command has just been rejected in the third attempt, which goes on.
C5_Witness ==
    pc = "iter" /\ handled = "nan" /\ attempt = 2 /\ timeouts = 2

\* ---------------------------------------------------------------------- C6
\* C6: the call returns at the first valid finite command delivered during
\* it: whenever the receiver takes messages from the topic and a valid command
\* is among them, the call returns at that step with that command's Tc, and
\* the valid command is the last message it took.
C6_FirstValidAccepted ==
    [][ ( /\ InCall
          /\ Len(inbound') < Len(inbound) )
        => \A k \in 1 .. Len(Taken) :
              IsValidCmd(Taken[k])
                => (k = Len(Taken) /\ pc' = "fold" /\ tc' = Taken[k].tc) ]_vars

\* ---------------------------------------------------------------------- C7
\* C7: every message the receiver takes from the inbound topic is
\* validated (lines 51-64 run on it), those fetched by the secondary poll
\* included; none is consumed unexamined.
C7_EveryTakenMessageValidated ==
    [][ (Len(inbound') < Len(inbound))
        => ( /\ pc = "iter"
             /\ Len(Taken) = 1
             /\ handled' = Handle(Head(inbound)) ) ]_vars

\* ---------------------------------------------------------------------- C8
\* C8: send_data_to_kafka called with a NaN in either argument sends
\* nothing (neither buffered nor delivered), does not touch the readiness
\* marker, logs an error and returns to its caller.
C8_NaNNeverPublished ==
    [][ ( /\ pc = "send"
          /\ pc' # pc
          /\ (np_isnan(Ca[i + 1]) \/ np_isnan(T[i + 1])) )
        => ( /\ prodBuf' = prodBuf
             /\ outbound' = outbound
             /\ marker' = marker
             /\ creations' = creations
             /\ sendLog' = "error"
             /\ pc' = "recv" ) ]_vars

\* The publisher has returned from a call with (x, NaN): error logged,
\* nothing sent, no marker.
C8_Witness ==
    /\ pc = "recv"
    /\ i = 0
    /\ ~np_isnan(Ca[1]) /\ np_isnan(T[1])
    /\ sendLog = "error"
    /\ outbound = <<>> /\ prodBuf = <<>>
    /\ ~marker

\* ---------------------------------------------------------------------- C9
\* C9: for every completed step exactly one telemetry message has been sent
\* if both values are finite and none otherwise; every message sent carries
\* two finite values.
PublishReturned == pc \in {"recv", "iter", "repoll", "fold", "done", "raised"}
StepsPublished ==
    {j \in 0 .. (NPoints - 2) : j < i \/ (j = i /\ PublishReturned)}

C9_OneFiniteMessagePerStep ==
    /\ \A k \in 1 .. Len(outbound) :
          IsFinite(outbound[k].Ca) /\ IsFinite(outbound[k].Reactor_Temperature)
    /\ (pc \notin {"send", "flush", "marker"}) =>
          Len(outbound) =
             Cardinality({j \in StepsPublished :
                             IsFinite(Ca[j + 1]) /\ IsFinite(T[j + 1])})

\* --------------------------------------------------------------------- C10
\* C10: the readiness marker is written at most once in a run; it is
\* written during the first successful emission, after that message has been
\* sent and flushed; once a message has been emitted and the publisher has
\* returned the marker exists; it is never removed, and it is not written
\* when it already exists.
C10_MarkerCreatedOnce ==
    /\ [](creations <= 1)
    /\ []((outbound # <<>> /\ pc # "marker") => marker)
    /\ [][ /\ marker => (marker' /\ creations' = creations)
           /\ (creations' # creations)
                => ( /\ creations' = creations + 1
                     /\ marker'
                     /\ prodBuf = <<>>
                     /\ Len(outbound) = 1 ) ]_vars

\* A second message has been emitted by a later step and the marker, written
\* once during the first emission, was left alone.
C10_Witness ==
    /\ pc = "recv"
    /\ i = 1
    /\ Len(outbound) = 2
    /\ creations = 1
    /\ marker

\* --------------------------------------------------------------------- C11
\* The current step has been integrated and its command is not folded yet
StepIntegrated ==
    pc \in {"send", "flush", "marker", "recv", "iter", "repoll", "fold",
            "raised"}
\* The receiver returned a value (not None) in step j
AcceptedIn(j) == accepted[j].k # "pending" /\ accepted[j].k # "none"

\* C11: one-step-ahead indexing.  The span of step i is integrated with what
\* control-input[i+1] holds at the odeint call, before the command of that
\* step is received; a value accepted in step i-1 is in control-input[i] before
\* step i is integrated; and what a step was integrated with stays the
\* original value of its slot (300), whatever is written to the slot later.
C11_OneStepAhead ==
    /\ StepIntegrated => usedU = u[i + 1]
    /\ (pc = "integrate" /\ i >= 1 /\ AcceptedIn(i - 1))
          => u[i] = accepted[i - 1]
    /\ (usedU # Pending) => usedU = initial_tc

\* Step 0 was integrated with 300, then accepted 305: control-input[1] is 305
\* before step 1 is integrated, and step 0 is still the one integrated with 300.
C11_Witness ==
    /\ pc = "integrate"
    /\ i = 1
    /\ accepted[0] = Fin(305)
    /\ u[1] = Fin(305)
    /\ usedU = Fin(300)

\* --------------------------------------------------------------------- C12
\* C12: a value accepted at the end of step i-1 is the control input that
\* step i is integrated with.
C12_AcceptedUsedNextStep ==
    (StepIntegrated /\ i >= 1 /\ AcceptedIn(i - 1)) => usedU = accepted[i - 1]

\* --------------------------------------------------------------------- C13
\* Every state recorded so far is finite
StatesFinite == \A j \in Idx : IsFinite(Ca[j]) /\ IsFinite(T[j])

\* C13: a step whose receiver call returned None leaves its slot of the
\* control-input sequence at its initial value and the loop moves on; a run in
\* which every step was exhausted and every state finite ends with exactly
\* len(t) - 1 telemetry messages and an unchanged control-input sequence.
C13_ExhaustedLeavesInput ==
    /\ \A j \in Steps :
          accepted[j] = None
            => (u[j + 1] = initial_tc /\ (i > j \/ pc = "done"))
    /\ (pc = "done" /\ StatesFinite /\ \A j \in Steps : accepted[j] = None)
          => ( /\ Len(outbound) = NPoints - 1
               /\ u = [j \in Idx |-> initial_tc] )

\* A finished run with finite states in which every receiver call returned
\* None.
C13_Witness ==
    /\ pc = "done"
    /\ StatesFinite
    /\ \A j \in Steps : accepted[j] = None
    /\ Len(outbound) = NPoints - 1

\* --------------------------------------------------------------------- C14
\* The latest integration gave a non-finite state
IntegrationFailed ==
    endState # NoPair /\ ~(IsFinite(endState[1]) /\ IsFinite(endState[2]))

\* C14: a failed integration halts the run: no command is awaited after
\* it, and no step is integrated from a corrupted start state.
C14_FailureHaltsRun ==
    /\ IntegrationFailed => ~InCall
    /\ (startState # NoPair)
          => (IsFinite(startState[1]) /\ IsFinite(startState[2]))

\* --------------------------------------------------------------------- C15
\* C15: the loop variable only takes the values 0 .. len(t)-2, and at every
\* point the numbers of odeint calls, publisher calls, receiver calls and
\* receiver returns fit the order integrate, publish, receive of cycle i with
\* every earlier cycle having had exactly one of each: the receiver is called
\* once per cycle also after rejected telemetry, step i+1 is not integrated
\* before the receiver call of step i has returned, and a finished run has
\* had len(t)-1 of each.
CallsAre(a, b, c, d) ==
    calls.integ = a /\ calls.pub = b /\ calls.recv = c /\ calls.ret = d

C15_OneCyclePerPoint ==
    /\ i \in Steps
    /\ (pc = "integrate") => CallsAre(i, i, i, i)
    /\ (pc = "send") => CallsAre(i + 1, i, i, i)
    /\ (pc \in {"flush", "marker", "recv"}) => CallsAre(i + 1, i + 1, i, i)
    /\ (pc \in {"iter", "repoll", "raised"})
          => CallsAre(i + 1, i + 1, i + 1, i)
    /\ (pc = "fold") => CallsAre(i + 1, i + 1, i + 1, i + 1)
    /\ (pc = "done")
          => (i = NPoints - 2
              /\ CallsAre(NPoints - 1, NPoints - 1, NPoints - 1, NPoints - 1))

\* A finished run whose last telemetry was rejected as NaN: the receiver was
\* still called in every cycle.
C15_Witness ==
    /\ pc = "done"
    /\ sendLog = "error"
    /\ calls.recv = NPoints - 1
    /\ calls.ret = NPoints - 1

\* --------------------------------------------------------------------- C16
\* C16: the pair recorded at index i+1 is the end state odeint returned for
\* step i, it is the pair handed to the publisher in step i, and it is the
\* start state of the integration of step i+1 (step 0 starts from the initial
\* state); at the end the last grid point holds the end state of the last step.
C16_StateCarriedForward ==
    /\ (StepIntegrated \/ pc = "done")
          => (<<Ca[i + 1], T[i + 1]>> = endState /\ x0 = endState)
    /\ (StepIntegrated /\ pc # "send") => sentPair = endState
    /\ (StepIntegrated \/ pc = "done")
          => startState = IF i = 0 THEN x0_init ELSE <<Ca[i], T[i]>>
    /\ (pc = "integrate" /\ i >= 1)
          => (x0 = <<Ca[i], T[i]>> /\ sentPair = x0)
    /\ (pc = "done") => i + 1 = NPoints - 1

\* Step 1 has just been integrated from the end state of step 0, which
\* differs from the initial state and from the new end state.
C16_Witness ==
    /\ pc = "send"
    /\ i = 1
    /\ startState = <<Ca[1], T[1]>>
    /\ startState # x0_init
    /\ endState = <<Ca[2], T[2]>>
    /\ endState # startState

\* --------------------------------------------------------------------- C17
\* C17: the control-input sequence keeps its length, index 0 keeps the
\* initial value, and for j >= 1 index j holds the value accepted in step j-1
\* if that step completed with a value and the initial value otherwise (so a
\* step writes nothing but index i+1).
C17_ControlInputShape ==
    /\ DOMAIN u = Idx
    /\ u[0] = initial_tc
    /\ \A j \in 1 .. (NPoints - 1) :
          u[j] = IF AcceptedIn(j - 1) THEN accepted[j - 1] ELSE initial_tc

\* A finished run that accepted 305 in step 0 and nothing in the last step.
C17_Witness ==
    /\ pc = "done"
    /\ accepted[0] = Fin(305)
    /\ accepted[NPoints - 2] = None
    /\ u[1] = Fin(305)
    /\ u[NPoints - 1] = initial_tc

\* --------------------------------------------------------------------- C18
\* C18: a command that was already on the inbound topic when the latest
\* telemetry message was delivered is never the value the receiver returns.
\* Stated for the finite values it returns (C3 is about the others).
C18_AcceptedAnswersTelemetry ==
    [][ (pc = "iter" /\ pc' = "fold" /\ IsFinite(tc')) => stale = 0 ]_vars

====
